---- MODULE Spec2Model ----
(***************************************************************************)
(* Conditioning-coefficient helpers of animatediff/utils/util.py.          *)
(*                                                                         *)
(* A caller prepares the arguments of one helper (pc = "ready"), the       *)
(* helper runs to completion in one step (pc = "returned") and the caller  *)
(* goes on to its next call (pc = "idle").  The list objects the caller    *)
(* passes live in args, so that an in-place update made by a helper is     *)
(* visible after the call; the module-level table RANGE_LIST is a          *)
(* variable for the same reason.                                           *)
(*                                                                         *)
(* Python floats are modelled as exact rationals <<n, d>> in lowest terms  *)
(* with d > 0; <<0, 0>> stands for a non-finite tensor value (inf, nan).   *)
(***************************************************************************)
EXTENDS Integers, Sequences, FiniteSets, TLC

VARIABLES pc, op, args, result, RANGE_LIST

vars == <<pc, op, args, result, RANGE_LIST>>

(* ------------------------------ bounds --------------------------------- *)

\* largest video_length handed to the single-anchor helpers
MaxVideoLength == 7
\* largest video_length handed to the multi-anchor helpers
MaxMultiLength == 5
\* longest cond_frames list
MaxCondFrames == 3
\* rows and frames of the score tensor, and its largest number of entries
MaxBatch == 2
MaxFrames == 2
MaxCells == 4
\* frame sizes are DimStep, 2*DimStep, ..., MaxDim*DimStep pixels
MaxDim == 10
DimStep == 48

(* --------------------------- float arithmetic -------------------------- *)

AbsInt(i) == IF i < 0 THEN -i ELSE i

RECURSIVE Gcd(_, _)
Gcd(a, b) == IF b = 0 THEN a ELSE Gcd(b, a % b)

Norm(n, d) ==
    LET s == IF d < 0 THEN -1 ELSE 1
        g == Gcd(AbsInt(n), AbsInt(d))
    IN  <<(s * n) \div g, (s * d) \div g>>

FromInt(i) == <<i, 1>>
Zero == <<0, 1>>
One == <<1, 1>>
NonFinite == <<0, 0>>

RAdd(x, y) == Norm(x[1] * y[2] + y[1] * x[2], x[2] * y[2])
RSub(x, y) == Norm(x[1] * y[2] - y[1] * x[2], x[2] * y[2])
RMul(x, y) == Norm(x[1] * y[1], x[2] * y[2])
\* x / y for y # 0
RDiv(x, y) == Norm(x[1] * y[2], x[2] * y[1])
RAbs(x) == <<AbsInt(x[1]), x[2]>>
RLess(x, y) == x[1] * y[2] < y[1] * x[2]
RLeq(x, y) == x[1] * y[2] <= y[1] * x[2]

\* min(...) and max(...) of a non-empty list of floats
RMin(s) == CHOOSE x \in {s[i] : i \in DOMAIN s} :
               \A j \in DOMAIN s : RLeq(x, s[j])
RMax(s) == CHOOSE x \in {s[i] : i \in DOMAIN s} :
               \A j \in DOMAIN s : RLeq(s[j], x)

\* max(...) of a non-empty list of ints
MaxInt(s) == CHOOSE x \in {s[i] : i \in DOMAIN s} :
                 \A j \in DOMAIN s : s[j] <= x

(* ------------------------------ outcomes ------------------------------- *)

\* a helper returns a value or raises; calls counts the linear profiles
\* computed on the way
Ok(v) == [status |-> "ok", value |-> v, calls |-> 0]
Raise(e) == [status |-> e, value |-> <<>>, calls |-> 0]
NoResult == [status |-> "none", value |-> <<>>, calls |-> 0]

NoArgs == [none |-> 0]

(* --------------------------- prepare_mask_coef ------------------------- *)

\* the step per frame taken over video_length instead of video_length - 1
diff_per_length(video_length, sim_range) ==
    RDiv(RAbs(RSub(sim_range[1], sim_range[2])), FromInt(video_length))

\* diff = abs(sim_range[0] - sim_range[1]) / (video_length - 1)
diff(video_length, sim_range) ==
    RDiv(RAbs(RSub(sim_range[1], sim_range[2])), FromInt(video_length - 1))

\* The list is 0-based in the source: coef[f] of the source is value[f + 1].
prepare_mask_coef(video_length, cond_frame, sim_range) ==
    IF Len(sim_range) # 2 THEN Raise("AssertionError")
    ELSE IF ~(video_length > 1) THEN Raise("AssertionError")
    ELSE IF ~(video_length > cond_frame) THEN Raise("AssertionError")
    ELSE
      LET coef == [i \in 1..video_length |->
                     LET f == i - 1
                         f_diff == RSub(One, RMul(diff(video_length, sim_range),
                                                  FromInt(AbsInt(cond_frame - f))))
                     IN  RMul(One, f_diff)]
      IN  Ok(coef)

(* ------------------------------ RANGE_LIST ----------------------------- *)

\* a profile written in hundredths
Hundredths(s) == [i \in DOMAIN s |-> Norm(s[i], 100)]

RangeListInit ==
    << Hundredths(<<100, 90, 85, 85, 85, 80>>),
       Hundredths(<<100, 80, 80, 80, 79, 78, 75>>),
       Hundredths(<<100, 80, 70, 70, 70, 70, 70, 70, 70, 70, 60, 50, 50>>),
       Hundredths(<<100, 90, 85, 85, 85, 80, 80, 80, 80, 80, 80, 80, 85, 85, 90, 100>>),
       Hundredths(<<100, 80, 80, 80, 79, 78, 75, 75, 75, 75, 75, 78, 79, 80, 80, 100>>),
       Hundredths(<<100, 80, 70, 70, 70, 70, 60, 50, 50, 60, 70, 70, 70, 70, 80, 100>>),
       Hundredths(<<50, 20>>),
       Hundredths(<<50, 40, 40, 40, 35, 35, 30, 25, 20>>),
       Hundredths(<<50, 40, 40, 40, 35, 30>>) >>

(* ------------------------------ Python lists --------------------------- *)

\* [x] * n ; the empty list when n <= 0
Repeat(x, n) == [i \in 1..n |-> x]

\* the 1-based position that the Python index i denotes in a list of
\* length len, or 0 when list[i] raises IndexError
PyIndex(len, i) ==
    IF 0 <= i /\ i < len THEN i + 1
    ELSE IF i < 0 /\ -len <= i THEN len + i + 1
    ELSE 0

(* ------------------- prepare_mask_coef_by_statistics ------------------- *)

\* coef += [...] : the extension lands in the profile that the table holds
ExtendCoefInPlace(range_list, pos, video_length) ==
    LET coef == range_list[pos]
        ext  == coef \o Repeat(coef[Len(coef)], video_length - Len(coef))
    IN  [coef |-> ext, range_list |-> [range_list EXCEPT ![pos] = ext]]

\* coef = range_list[sim_range] aliases the profile held by the table;
\* coef = coef + [...] then binds coef to a fresh list
ExtendCoef(range_list, pos, video_length) ==
    LET coef == range_list[pos]
        ext  == coef \o Repeat(coef[Len(coef)], video_length - Len(coef))
    IN  [coef |-> ext, range_list |-> range_list]

\* the offsets taken without abs
order_signed(video_length, cond_frame) ==
    [i \in 1..video_length |-> (i - 1) - cond_frame]

\* order = [abs(i - cond_frame) for i in range(video_length)]
order(video_length, cond_frame) ==
    [i \in 1..video_length |-> AbsInt((i - 1) - cond_frame)]

\* out is what the call returns or raises, range_list the table after it
prepare_mask_coef_by_statistics(range_list, video_length, cond_frame, sim_range) ==
    IF ~(video_length > 0) THEN
        [out |-> Raise("AssertionError"), range_list |-> range_list]
    ELSE IF ~(video_length > cond_frame) THEN
        [out |-> Raise("AssertionError"), range_list |-> range_list]
    ELSE IF ~(sim_range < Len(range_list)) THEN
        [out |-> Raise("AssertionError"), range_list |-> range_list]
    ELSE IF PyIndex(Len(range_list), sim_range) = 0 THEN
        [out |-> Raise("IndexError"), range_list |-> range_list]
    ELSE
      LET e     == ExtendCoef(range_list, PyIndex(Len(range_list), sim_range), video_length)
          ord   == order(video_length, cond_frame)
      IN  IF \E i \in 1..video_length : PyIndex(Len(e.coef), ord[i]) = 0
          THEN [out |-> Raise("IndexError"), range_list |-> e.range_list]
          ELSE [out |-> Ok([i \in 1..video_length |->
                              e.coef[PyIndex(Len(e.coef), ord[i])]]),
                range_list |-> e.range_list]

(* ---------------------- prepare_masked_latent_cond --------------------- *)

\* list.sort() on a list of ints
RECURSIVE Insert(_, _)
Insert(x, s) ==
    IF s = <<>> THEN <<x>>
    ELSE IF x <= Head(s) THEN <<x>> \o s
    ELSE <<Head(s)>> \o Insert(x, Tail(s))

RECURSIVE SortAsc(_)
SortAsc(s) == IF s = <<>> THEN <<>> ELSE Insert(Head(s), SortAsc(Tail(s)))

\* one step of the inner loop, replacing on a tie as well
ReplaceIfNearerOrEqual(cur, cond_frame, f) ==
    IF AbsInt(cur - f) >= AbsInt(cond_frame - f) THEN cond_frame ELSE cur

\* one step of the inner loop over cond_frames for frame f
ReplaceIfNearer(cur, cond_frame, f) ==
    IF AbsInt(cur - f) > AbsInt(cond_frame - f) THEN cond_frame ELSE cur

RECURSIVE NearestOf(_, _, _)
NearestOf(cur, rest, f) ==
    IF rest = <<>> THEN cur
    ELSE NearestOf(ReplaceIfNearer(cur, Head(rest), f), Tail(rest), f)

\* out is what the call returns or raises, cond_frames the caller's list
\* after it
prepare_masked_latent_cond(video_length, cond_frames) ==
    IF \E i \in DOMAIN cond_frames :
          ~(cond_frames[i] < video_length) \/ ~(cond_frames[i] > -1)
    THEN [out |-> Raise("AssertionError"), cond_frames |-> cond_frames]
    ELSE
      LET sorted == SortAsc(cond_frames)
      IN  IF sorted = <<>>
          THEN [out |-> Raise("IndexError"), cond_frames |-> sorted]
          ELSE [out |-> Ok([i \in 1..video_length |->
                              NearestOf(sorted[1], sorted, i - 1)]),
                cond_frames |-> sorted]

(* --------------------- prepare_mask_coef_multi_cond -------------------- *)

\* (x - min_num) / (max_num - min_num) over the whole list
MinMaxNormalize(mixed_coef) ==
    LET min_num == RMin(mixed_coef)
        max_num == RMax(mixed_coef)
    IN  [i \in DOMAIN mixed_coef |->
           RDiv(RSub(mixed_coef[i], min_num), RSub(max_num, min_num))]

\* the loop over conds, from anchor number conds (0-based) on; zerodiv is set
\* when a normalisation divides by max_num - min_num = 0
RECURSIVE FoldAnchors(_, _, _)
FoldAnchors(mixed_coef, cond_coefs, conds) ==
    IF conds >= Len(cond_coefs) THEN [zerodiv |-> FALSE, mixed |-> mixed_coef]
    ELSE
      LET folded == [i \in DOMAIN mixed_coef |->
                       RAbs(RSub(cond_coefs[conds + 1][i], mixed_coef[i]))]
      IN  IF conds > 0
          THEN IF RMax(folded) = RMin(folded)
               THEN [zerodiv |-> TRUE, mixed |-> folded]
               ELSE FoldAnchors(MinMaxNormalize(folded), cond_coefs, conds + 1)
          ELSE FoldAnchors(folded, cond_coefs, conds + 1)

\* x if lo <= x <= hi else lo if x < lo else hi
Clamp(x, lo, hi) ==
    IF RLeq(lo, x) /\ RLeq(x, hi) THEN x
    ELSE IF RLess(x, lo) THEN lo ELSE hi

\* the short-circuit is never taken
degenerate_never(sim_range) == FALSE

\* max(sim_range) == min(sim_range)
degenerate(sim_range) == RMax(sim_range) = RMin(sim_range)

prepare_mask_coef_multi_cond(video_length, cond_frames, sim_range) ==
    IF Len(sim_range) # 2 THEN Raise("AssertionError")
    ELSE IF ~(video_length > 1) THEN Raise("AssertionError")
    ELSE IF cond_frames = <<>> THEN Raise("ValueError")
    ELSE IF ~(video_length > MaxInt(cond_frames)) THEN Raise("AssertionError")
    ELSE IF degenerate(sim_range) THEN Ok(Repeat(sim_range[1], video_length))
    ELSE
      LET lo == RMin(sim_range)
          hi == RMax(sim_range)
          cond_coefs == [c \in DOMAIN cond_frames |->
                           prepare_mask_coef(video_length, cond_frames[c], sim_range).value]
          fold == FoldAnchors(Repeat(Zero, video_length), cond_coefs, 0)
          mixed_max == RMax(fold.mixed)
          mixed_min == RMin(fold.mixed)
          mapped == [i \in 1..video_length |->
                       RAdd(RDiv(RMul(RSub(hi, lo), RSub(fold.mixed[i], mixed_min)),
                                 RSub(mixed_max, mixed_min)),
                            lo)]
      IN  IF fold.zerodiv \/ mixed_max = mixed_min
          THEN [status |-> "ZeroDivisionError", value |-> <<>>, calls |-> Len(cond_frames)]
          ELSE [status |-> "ok",
                value |-> [i \in 1..video_length |-> Clamp(mapped[i], lo, hi)],
                calls |-> Len(cond_frames)]

(* ------------------------- estimated_kernel_size ----------------------- *)

\* round(math.sqrt(n) / q) for an int n >= 0 and q > 0, in integer
\* arithmetic: the k with (2k - 1) q <= 2 sqrt(n) <= (2k + 1) q, and on a
\* tie the even one of the two (Python 3 rounds half to even)
RoundSqrtOver(n, q, kmax) ==
    LET k0 == CHOOSE k \in 0..kmax :
                 /\ (k = 0 \/ (2 * k - 1) * (2 * k - 1) * q * q <= 4 * n)
                 /\ 4 * n < (2 * k + 1) * (2 * k + 1) * q * q
        tie == k0 > 0 /\ (2 * k0 - 1) * (2 * k0 - 1) * q * q = 4 * n
    IN  IF tie /\ k0 % 2 = 1 THEN k0 - 1 ELSE k0

\* the size is returned as computed, without the parity fix
estimated_kernel_size_unfixed(frame_width, frame_height) ==
    4 + RoundSqrtOver(frame_width * frame_height, 192,
                      (frame_width + frame_height) \div 192 + 1)

estimated_kernel_size(frame_width, frame_height) ==
    LET size == 4 + RoundSqrtOver(frame_width * frame_height, 192,
                                  (frame_width + frame_height) \div 192 + 1)
    IN  IF size % 2 = 0 THEN size + 1 ELSE size

(* ----------------------- prepare_mask_coef_by_score -------------------- *)

\* score and statistic entries are held in units of 1e-10, the value of eps,
\* so that max_stats + eps is exact
eps == One

\* score.permute(0, 2, 1).squeeze(0): a (1, f, b) tensor seen as (b, f)
PermuteSqueeze(score, batch_size, frame_num) ==
    [i \in 1..batch_size |-> [j \in 1..frame_num |-> score[1][j][i]]]

\* the (1, f, b) base tensor behind a (b, f) view
BaseOfView(view, batch_size, frame_num) ==
    << [j \in 1..frame_num |-> [i \in 1..batch_size |-> view[i][j]]] >>

\* the final override is left out
OverrideNone(coef, cond_frame_idx) == coef

\* coef[indices, cond_fram_mat] = 1.0
OverrideCond(coef, cond_frame_idx) ==
    [i \in DOMAIN coef |->
       [j \in DOMAIN coef[i] |-> IF j - 1 = cond_frame_idx[i] THEN One ELSE coef[i][j]]]

\* out is what the call returns or raises, score the caller's tensor after it
prepare_mask_coef_by_score(video_shape, cond_frame_idx, sim_range, statistic, score) ==
    IF Len(video_shape) # 2 THEN [out |-> Raise("AssertionError"), score |-> score]
    ELSE
      LET batch_size == video_shape[1]
          frame_num  == video_shape[2]
          view       == PermuteSqueeze(score, batch_size, frame_num)
          order_mat  == [i \in 1..batch_size |->
                           [j \in 1..frame_num |-> AbsInt((j - 1) - cond_frame_idx[i])]]
          stat       == [i \in 1..batch_size |->
                           [j \in 1..frame_num |-> statistic[order_mat[i][j] + 1]]]
          max_stats  == [i \in 1..batch_size |-> [j \in 1..frame_num |-> RMax(stat[i][j])]]
          min_stats  == [i \in 1..batch_size |-> [j \in 1..frame_num |-> RMin(stat[i][j])]]
          capped     == [i \in 1..batch_size |-> [j \in 1..frame_num |->
                           IF RLess(max_stats[i][j], view[i][j])
                           THEN RMul(max_stats[i][j], Norm(95, 100))
                           ELSE view[i][j]]]
          clipped    == [i \in 1..batch_size |-> [j \in 1..frame_num |->
                           IF RLess(capped[i][j], min_stats[i][j])
                           THEN min_stats[i][j]
                           ELSE capped[i][j]]]
          width      == RSub(RMax(sim_range), RMin(sim_range))
          coef       == [i \in 1..batch_size |-> [j \in 1..frame_num |->
                           IF RAdd(max_stats[i][j], eps) = Zero
                           THEN NonFinite
                           ELSE RSub(One,
                                     RAbs(RMul(RDiv(clipped[i][j],
                                                    RAdd(max_stats[i][j], eps)),
                                               width)))]]
      IN  [out   |-> Ok(OverrideCond(coef, cond_frame_idx)),
           score |-> BaseOfView(clipped, batch_size, frame_num)]

(* ------------------------------- inputs -------------------------------- *)

SimValues == {<<1, 5>>, <<1, 2>>, <<1, 1>>}
\* two-element ranges in either order, degenerate ones, and a malformed list
SimRanges == {<<a, b>> : a \in SimValues, b \in SimValues} \cup {<<One>>}

\* score entries and [min, max] rows of the statistic table, in units of eps
ScoreValues == {<<0, 1>>, <<3, 1>>}
StatRows == {<< <<1, 1>>, <<2, 1>> >>, << <<4, 1>>, <<0, 1>> >>, << <<-1, 1>>, <<-1, 1>> >>}
ScoreSimRanges == {<< <<1, 5>>, <<1, 1>> >>, << <<1, 2>>, <<1, 2>> >>}

(* ------------------------------- actions ------------------------------- *)

Init ==
    /\ pc = "idle"
    /\ op = "none"
    /\ args = NoArgs
    /\ result = NoResult
    /\ RANGE_LIST = RangeListInit

ChooseLinear ==
    /\ pc = "idle"
    /\ \E video_length \in 0..MaxVideoLength :
       \E cond_frame \in -1..video_length :
       \E sim_range \in SimRanges :
         args' = [video_length |-> video_length, cond_frame |-> cond_frame,
                  sim_range |-> sim_range]
    /\ pc' = "ready"
    /\ op' = "prepare_mask_coef"
    /\ UNCHANGED <<result, RANGE_LIST>>

CallLinear ==
    /\ pc = "ready"
    /\ op = "prepare_mask_coef"
    /\ result' = prepare_mask_coef(args.video_length, args.cond_frame, args.sim_range)
    /\ pc' = "returned"
    /\ UNCHANGED <<op, args, RANGE_LIST>>

\* the lists of length at most n over the set S
RECURSIVE ListsUpTo(_, _)
ListsUpTo(S, n) ==
    IF n = 0 THEN {<<>>}
    ELSE LET shorter == ListsUpTo(S, n - 1)
         IN  shorter \cup {Append(l, x) : l \in shorter, x \in S}

ChooseStatistics ==
    /\ pc = "idle"
    /\ \E video_length \in 0..MaxVideoLength :
       \E cond_frame \in -1..video_length :
       \E profile_index \in -10..9 :
         args' = [video_length |-> video_length, cond_frame |-> cond_frame,
                  profile_index |-> profile_index]
    /\ pc' = "ready"
    /\ op' = "prepare_mask_coef_by_statistics"
    /\ UNCHANGED <<result, RANGE_LIST>>

CallStatistics ==
    /\ pc = "ready"
    /\ op = "prepare_mask_coef_by_statistics"
    /\ LET r == prepare_mask_coef_by_statistics(RANGE_LIST, args.video_length,
                                                args.cond_frame, args.profile_index)
       IN  /\ result' = r.out
           /\ RANGE_LIST' = r.range_list
    /\ pc' = "returned"
    /\ UNCHANGED <<op, args>>

ChooseMultiCond ==
    /\ pc = "idle"
    /\ \E video_length \in 0..MaxMultiLength :
       \E cond_frames \in ListsUpTo(0..video_length, MaxCondFrames) :
       \E sim_range \in SimRanges :
         args' = [video_length |-> video_length, cond_frames |-> cond_frames,
                  sim_range |-> sim_range]
    /\ pc' = "ready"
    /\ op' = "prepare_mask_coef_multi_cond"
    /\ UNCHANGED <<result, RANGE_LIST>>

CallMultiCond ==
    /\ pc = "ready"
    /\ op = "prepare_mask_coef_multi_cond"
    /\ result' = prepare_mask_coef_multi_cond(args.video_length, args.cond_frames,
                                              args.sim_range)
    /\ pc' = "returned"
    /\ UNCHANGED <<op, args, RANGE_LIST>>

ChooseLatentCond ==
    /\ pc = "idle"
    /\ \E video_length \in 0..MaxMultiLength :
       \E cond_frames \in ListsUpTo(-1..video_length, MaxCondFrames) :
         args' = [video_length |-> video_length, cond_frames |-> cond_frames]
    /\ pc' = "ready"
    /\ op' = "prepare_masked_latent_cond"
    /\ UNCHANGED <<result, RANGE_LIST>>

CallLatentCond ==
    /\ pc = "ready"
    /\ op = "prepare_masked_latent_cond"
    /\ LET r == prepare_masked_latent_cond(args.video_length, args.cond_frames)
       IN  /\ result' = r.out
           /\ args' = [args EXCEPT !.cond_frames = r.cond_frames]
    /\ pc' = "returned"
    /\ UNCHANGED <<op, RANGE_LIST>>

ChooseScore ==
    /\ pc = "idle"
    /\ \E batch_size \in 1..MaxBatch :
       \E frame_num \in {f \in 1..MaxFrames : batch_size * f <= MaxCells} :
       \E cond_frame_idx \in [1..batch_size -> 0..(frame_num - 1)] :
       \E statistic \in [1..frame_num -> StatRows] :
       \E score \in [1..frame_num -> [1..batch_size -> ScoreValues]] :
       \E sim_range \in ScoreSimRanges :
         args' = [video_shape |-> <<batch_size, frame_num>>,
                  cond_frame_idx |-> cond_frame_idx, sim_range |-> sim_range,
                  statistic |-> statistic, score |-> <<score>>]
    /\ pc' = "ready"
    /\ op' = "prepare_mask_coef_by_score"
    /\ UNCHANGED <<result, RANGE_LIST>>

CallScore ==
    /\ pc = "ready"
    /\ op = "prepare_mask_coef_by_score"
    /\ LET r == prepare_mask_coef_by_score(args.video_shape, args.cond_frame_idx,
                                           args.sim_range, args.statistic, args.score)
       IN  /\ result' = r.out
           /\ args' = [args EXCEPT !.score = r.score]
    /\ pc' = "returned"
    /\ UNCHANGED <<op, RANGE_LIST>>

ChooseKernel ==
    /\ pc = "idle"
    /\ \E w \in 1..MaxDim : \E h \in 1..MaxDim :
         args' = [frame_width |-> w * DimStep, frame_height |-> h * DimStep]
    /\ pc' = "ready"
    /\ op' = "estimated_kernel_size"
    /\ UNCHANGED <<result, RANGE_LIST>>

CallKernel ==
    /\ pc = "ready"
    /\ op = "estimated_kernel_size"
    /\ result' = Ok(estimated_kernel_size(args.frame_width, args.frame_height))
    /\ pc' = "returned"
    /\ UNCHANGED <<op, args, RANGE_LIST>>

Continue ==
    /\ pc = "returned"
    /\ pc' = "idle"
    /\ op' = "none"
    /\ args' = NoArgs
    /\ result' = NoResult
    /\ UNCHANGED RANGE_LIST

Next ==
    \/ ChooseLinear
    \/ CallLinear
    \/ ChooseStatistics
    \/ CallStatistics
    \/ ChooseMultiCond
    \/ CallMultiCond
    \/ ChooseLatentCond
    \/ CallLatentCond
    \/ ChooseScore
    \/ CallScore
    \/ ChooseKernel
    \/ CallKernel
    \/ Continue

Spec == Init /\ [][Next]_vars

(* ------------------------------ properties ----------------------------- *)

Returned(o) == pc = "returned" /\ op = o

InRange(cond_frames, video_length) ==
    \A i \in DOMAIN cond_frames : cond_frames[i] \in 0..(video_length - 1)

\* C1: a call of prepare_mask_coef_multi_cond with video_length > 1, a
\* non-empty list of in-range anchors and lo # hi returns video_length values,
\* each within [min(sim_range), max(sim_range)].
C1_MultiCondWithinRange ==
    ( /\ Returned("prepare_mask_coef_multi_cond")
      /\ args.video_length > 1
      /\ args.cond_frames # <<>>
      /\ InRange(args.cond_frames, args.video_length)
      /\ Len(args.sim_range) = 2
      /\ args.sim_range[1] # args.sim_range[2] )
    => /\ result.status = "ok"
       /\ DOMAIN result.value = 1..args.video_length
       /\ \A i \in DOMAIN result.value :
            /\ RLeq(RMin(args.sim_range), result.value[i])
            /\ RLeq(result.value[i], RMax(args.sim_range))

ValidLinear ==
    /\ Returned("prepare_mask_coef")
    /\ args.video_length > 1
    /\ args.cond_frame \in 0..(args.video_length - 1)
    /\ Len(args.sim_range) = 2

\* C2: for valid input prepare_mask_coef returns video_length values, the
\* value of frame f being 1 - |lo - hi| / (video_length - 1) * |cond_frame - f|,
\* and the value at cond_frame is 1.0.
C2_LinearProfile ==
    ValidLinear
    => /\ result.status = "ok"
       /\ DOMAIN result.value = 1..args.video_length
       /\ \A f \in 0..(args.video_length - 1) :
            RMul(RSub(One, result.value[f + 1]), FromInt(args.video_length - 1))
              = RMul(RAbs(RSub(args.sim_range[1], args.sim_range[2])),
                     FromInt(AbsInt(args.cond_frame - f)))
       /\ result.value[args.cond_frame + 1] = One

C2_Witness ==
    /\ ValidLinear
    /\ args.video_length = 5
    /\ args.cond_frame = 2
    /\ args.sim_range = << <<1, 5>>, <<1, 1>> >>
    /\ result.value = << <<3, 5>>, <<4, 5>>, <<1, 1>>, <<4, 5>>, <<3, 5>> >>

ValidStatistics ==
    /\ Returned("prepare_mask_coef_by_statistics")
    /\ args.video_length > 0
    /\ args.cond_frame \in 0..(args.video_length - 1)
    /\ args.profile_index \in 0..8

\* entry k (0-based) of a profile extended by repeating its last value
Extended(profile, k) ==
    IF k < Len(profile) THEN profile[k + 1] ELSE profile[Len(profile)]

\* C3: for valid input prepare_mask_coef_by_statistics returns video_length
\* values, the value of frame f being entry |f - cond_frame| of the selected
\* profile extended by its last value; the result is symmetric around
\* cond_frame, and (5, 2, 0) gives [0.85, 0.9, 1.0, 0.9, 0.85].
C3_StatisticalProfile ==
    ValidStatistics
    => /\ result.status = "ok"
       /\ DOMAIN result.value = 1..args.video_length
       /\ \A f \in 0..(args.video_length - 1) :
            result.value[f + 1]
              = Extended(RangeListInit[args.profile_index + 1], AbsInt(f - args.cond_frame))
       /\ \A k \in 0..args.video_length :
            ( /\ args.cond_frame + k < args.video_length
              /\ args.cond_frame - k >= 0 )
            => result.value[args.cond_frame + k + 1] = result.value[args.cond_frame - k + 1]
       /\ ( /\ args.video_length = 5
            /\ args.cond_frame = 2
            /\ args.profile_index = 0 )
          => result.value = << <<17, 20>>, <<9, 10>>, <<1, 1>>, <<9, 10>>, <<17, 20>> >>

\* the two-entry profile extended to five frames
C3_Witness ==
    /\ ValidStatistics
    /\ args.profile_index = 6
    /\ args.video_length = 5
    /\ args.cond_frame = 1
    /\ result.value = << <<1, 5>>, <<1, 2>>, <<1, 5>>, <<1, 5>>, <<1, 5>> >>

Elems(s) == {s[i] : i \in DOMAIN s}

ValidLatentCond ==
    /\ Returned("prepare_masked_latent_cond")
    /\ args.cond_frames # <<>>
    /\ InRange(args.cond_frames, args.video_length)

\* C4: for a non-empty list of in-range anchors prepare_masked_latent_cond
\* returns video_length values, the value of frame f being the lowest of the
\* anchors nearest to f; every ordering of the same anchors gives the same
\* result, and (5, [1, 3]) gives [1, 1, 1, 3, 3].
C4_NearestAnchor ==
    ValidLatentCond
    => /\ result.status = "ok"
       /\ DOMAIN result.value = 1..args.video_length
       /\ \A f \in 0..(args.video_length - 1) :
            LET chosen == result.value[f + 1]
            IN  /\ chosen \in Elems(args.cond_frames)
                /\ \A a \in Elems(args.cond_frames) :
                     /\ AbsInt(chosen - f) <= AbsInt(a - f)
                     /\ AbsInt(chosen - f) = AbsInt(a - f) => chosen <= a
       /\ \A other \in ListsUpTo(Elems(args.cond_frames), Len(args.cond_frames)) :
            SortAsc(other) = SortAsc(args.cond_frames)
            => prepare_masked_latent_cond(args.video_length, other).out = result
       /\ ( /\ args.video_length = 5
            /\ Elems(args.cond_frames) = {1, 3}
            /\ Len(args.cond_frames) = 2 )
          => result.value = <<1, 1, 1, 3, 3>>

C4_Witness ==
    /\ ValidLatentCond
    /\ args.video_length = 5
    /\ args.cond_frames = <<1, 3>>
    /\ result.value = <<1, 1, 1, 3, 3>>

\* C5: no coefficient helper changes its arguments: after a call of
\* prepare_mask_coef, prepare_mask_coef_by_statistics,
\* prepare_mask_coef_multi_cond or prepare_masked_latent_cond the caller's
\* argument values are those it passed.
C5_ArgumentsUnchanged ==
    [][ ( /\ pc = "ready"
          /\ pc' = "returned"
          /\ op \in {"prepare_mask_coef", "prepare_mask_coef_by_statistics",
                     "prepare_mask_coef_multi_cond", "prepare_masked_latent_cond"} )
        => args' = args ]_vars

\* C6: prepare_mask_coef_by_statistics fails an assertion whenever
\* video_length <= 0, cond_frame >= video_length or the profile index is
\* outside [0, 9).
C6_InvalidArgumentRejected ==
    ( /\ Returned("prepare_mask_coef_by_statistics")
      /\ \/ args.video_length <= 0
         \/ args.cond_frame >= args.video_length
         \/ args.profile_index \notin 0..8 )
    => result.status = "AssertionError"

DegenerateCall ==
    /\ Returned("prepare_mask_coef_multi_cond")
    /\ args.video_length > 1
    /\ InRange(args.cond_frames, args.video_length)
    /\ Len(args.sim_range) = 2
    /\ args.sim_range[1] = args.sim_range[2]

ConstantResult ==
    /\ result.status = "ok"
    /\ DOMAIN result.value = 1..args.video_length
    /\ \A i \in DOMAIN result.value : result.value[i] = args.sim_range[1]
    /\ result.calls = 0

\* C7 as stated: with lo = hi, prepare_mask_coef_multi_cond returns
\* video_length copies of that value for every list of in-range anchors,
\* without computing a linear profile.
C7_ConstantForEveryList ==
    DegenerateCall => ConstantResult

\* C7 as amended: with lo = hi, prepare_mask_coef_multi_cond returns
\* video_length copies of that value for every non-empty list of in-range
\* anchors, without computing a linear profile.
C7_ConstantForNonEmptyList ==
    (DegenerateCall /\ args.cond_frames # <<>>) => ConstantResult

C7_Witness ==
    /\ DegenerateCall
    /\ args.cond_frames = <<2, 0>>
    /\ args.video_length = 3
    /\ args.sim_range = << <<1, 2>>, <<1, 2>> >>
    /\ result.value = << <<1, 2>>, <<1, 2>>, <<1, 2>> >>

SizeCandidates(w, h) == 4..(4 + (w + h) \div 192 + 1)

\* r is a nearest integer to 4 + sqrt(n) / 192
NearestToSize(r, n) ==
    LET m == r - 4
    IN  /\ 2 * m + 1 >= 0
        /\ n <= 9216 * (2 * m + 1) * (2 * m + 1)
        /\ (2 * m - 1 <= 0 \/ 9216 * (2 * m - 1) * (2 * m - 1) <= n)

\* 4 + sqrt(n) / 192 lies halfway between r and r + 1
HalfwayAbove(r, n) ==
    LET m == r - 4
    IN  n = 9216 * (2 * m + 1) * (2 * m + 1)

\* r is round(4 + sqrt(n) / 192), halves going to the even neighbour or
\* upwards: a nearest integer, and on a halfway case not the odd lower one
RoundedSize(r, n) ==
    /\ NearestToSize(r, n)
    /\ ~(HalfwayAbove(r, n) /\ r % 2 = 1)

\* C9: estimated_kernel_size returns round(4 + sqrt(width * height) / 192)
\* when that is odd and one more when it is even, so the result is odd;
\* (192, 192) gives 5.
C9_KernelSize ==
    Returned("estimated_kernel_size")
    => LET n == args.frame_width * args.frame_height
           cand == SizeCandidates(args.frame_width, args.frame_height)
       IN  /\ \E r \in cand : RoundedSize(r, n)
           /\ \A r \in cand :
                RoundedSize(r, n)
                => result.value = IF r % 2 = 1 THEN r ELSE r + 1
           /\ result.value % 2 = 1
           /\ (args.frame_width = 192 /\ args.frame_height = 192) => result.value = 5

\* the rounded size is even and is raised by one
C9_Witness ==
    /\ Returned("estimated_kernel_size")
    /\ estimated_kernel_size_unfixed(args.frame_width, args.frame_height) % 2 = 0
    /\ result.value
         = estimated_kernel_size_unfixed(args.frame_width, args.frame_height) + 1

\* C10: RANGE_LIST keeps the lengths and values it had at start through every
\* sequence of calls of prepare_mask_coef_by_statistics, so a call returns
\* what the same call returns on the initial table.
C10_RangeListReadOnly ==
    /\ RANGE_LIST = RangeListInit
    /\ Returned("prepare_mask_coef_by_statistics")
       => result = prepare_mask_coef_by_statistics(RangeListInit, args.video_length,
                       args.cond_frame, args.profile_index).out

\* a call that extended the selected profile
C10_Witness ==
    /\ Returned("prepare_mask_coef_by_statistics")
    /\ result.status = "ok"
    /\ args.profile_index \in 0..8
    /\ args.video_length > Len(RangeListInit[args.profile_index + 1])
    /\ Len(result.value) > Len(RANGE_LIST[args.profile_index + 1])

====
